---- MODULE Spec2Model ----
(***************************************************************************)
(* The habit-adjustment backend of solo-leveling: the adjust_habits and    *)
(* update_habit handlers of the API module and insert_routine of db.py,    *)
(* over the three tables daily_routines, habit_adjustments and             *)
(* habit_history.                                                          *)
(*                                                                         *)
(* Spec      : handlers run one after the other, each a single step.       *)
(* SpecRules : the rule engine applied to one routine and one pending set  *)
(*             drawn from the whole range of hours.                        *)
(* SpecConc  : handlers run by two workers, one SQL statement per step,    *)
(*             each on its own connection (PostgreSQL READ COMMITTED, the  *)
(*             default psycopg2 leaves in place).                          *)
(*                                                                         *)
(* Python text is modelled as a sequence of one-character strings, a       *)
(* datetime.time as [hour, minute], a nullable list column as              *)
(* [is_list, items].  Columns no rule reads (workout, energy_level,        *)
(* stress_level, applied_on) are left out of the rows.                     *)
(***************************************************************************)
EXTENDS Integers, Sequences, FiniteSets, Bags, TLC

VARIABLES
    daily_routines,       \* set of rows [user_id, date, routine]
    habit_adjustments,    \* committed rows of habit_adjustments
    habit_history,        \* committed rows of habit_history, a bag (equal rows are kept apart)
    archived_ids,         \* history variable: per adjustment_id, the habit_history rows written for it
    next_adjustment_id,   \* the serial behind habit_adjustments.adjustment_id
    open_connections,     \* connections opened and not closed
    response,             \* what the last completed call returned
    workers               \* SpecConc: each worker's call, position, locals and open transaction

vars == <<daily_routines, habit_adjustments, habit_history, archived_ids,
          next_adjustment_id, open_connections, response, workers>>

----------------------------------------------------------------------------
(* Bounds of the model *)

MaxAdjustmentId == 3
MaxConnections == 1
MaxRoutineRows == 2

(* Program constants *)

LateSleepHour == 1
WakeFloor == 6
SleepFloor == 22
MealFloor == 6

UserIds == {1, 2}
Habits == {"wake_up_time", "sleep_time", "meal_times", "bad_habits"}
ValidStatuses == {"accepted", "rejected"}
RequestStatuses == {"accepted", "rejected", "maybe"}
Workers == {1, 2}

----------------------------------------------------------------------------
(* Python helpers *)

Max(a, b) == IF a >= b THEN a ELSE b

DigitChar == <<"0", "1", "2", "3", "4", "5", "6", "7", "8", "9">>

\* f"{n:02d}" for 0 <= n
RECURSIVE Digits(_)
Digits(n) == IF n < 10 THEN <<DigitChar[n + 1]>>
             ELSE Digits(n \div 10) \o <<DigitChar[(n % 10) + 1]>>

Fmt02d(n) == IF n < 10 THEN <<"0">> \o Digits(n) ELSE Digits(n)

\* f"{h:02d}:{m:02d}"
FormatHM(h, m) == Fmt02d(h) \o <<":">> \o Fmt02d(m)

DigitVal(c) == CHOOSE d \in 0..9 : DigitChar[d + 1] = c

\* int(s) for a string of decimal digits
RECURSIVE ParseInt(_)
ParseInt(s) == IF Len(s) = 1 THEN DigitVal(s[1])
               ELSE 10 * ParseInt(SubSeq(s, 1, Len(s) - 1)) + DigitVal(s[Len(s)])

\* h, m = map(int, time.split(":"))
SplitHM(s) ==
    LET i == CHOOSE k \in 1..Len(s) : s[k] = ":"
    IN  [h |-> ParseInt(SubSeq(s, 1, i - 1)), m |-> ParseInt(SubSeq(s, i + 1, Len(s)))]

\* str(list_of_str): "['a', 'b']"
RECURSIVE ReprItems(_)
ReprItems(l) == IF l = <<>> THEN <<>>
                ELSE IF Len(l) = 1 THEN <<"'", l[1], "'">>
                ELSE <<"'", l[1], "'", ",", " ">> \o ReprItems(Tail(l))

StrOfList(l) == <<"[">> \o ReprItems(l) \o <<"]">>

----------------------------------------------------------------------------
(* The rule engine of adjust_habits *)

\* Mutant of ExistingHabits: cur.fetchone() in place of cur.fetchall()
ExistingHabitsFirstRow(rows, user_id) ==
    LET pending == {r \in rows : r.user_id = user_id /\ r.status = "pending"}
    IN  {row.habit : row \in {r \in pending :
                                \A o \in pending : r.adjustment_id <= o.adjustment_id}}

ExistingHabits(rows, user_id) ==
    {row.habit : row \in {r \in rows : r.user_id = user_id /\ r.status = "pending"}}

\* ORDER BY date DESC LIMIT 1: any row of the latest date
LatestRoutines(rows, user_id) ==
    {r \in rows : /\ r.user_id = user_id
                  /\ \A o \in rows : o.user_id = user_id => o.date <= r.date}

\* Mutant of WakeRuleFires: >= in place of >
WakeRuleFiresFromOne(existing_habits, routine) ==
    "wake_up_time" \notin existing_habits /\ routine.sleep_time.hour >= LateSleepHour

WakeRuleFires(existing_habits, routine) ==
    "wake_up_time" \notin existing_habits /\ routine.sleep_time.hour > LateSleepHour

SleepRuleFires(existing_habits, routine) ==
    "sleep_time" \notin existing_habits /\ routine.sleep_time.hour > LateSleepHour

MealRuleFires(existing_habits, routine) ==
    "meal_times" \notin existing_habits /\ routine.meal_times.is_list

BadHabitsRuleFires(existing_habits, routine) ==
    /\ "bad_habits" \notin existing_habits
    /\ routine.bad_habits.is_list
    /\ routine.bad_habits.items # <<>>

NewWakeTime(wake_up_time) ==
    FormatHM(Max(WakeFloor, wake_up_time.hour - 1), wake_up_time.minute)

\* Mutant of NewSleepTime: the floor of the wake-up rule pasted into the sleep rule
NewSleepTimeWakeFloor(sleep_time) ==
    FormatHM(Max(WakeFloor, sleep_time.hour - 1), sleep_time.minute)

NewSleepTime(sleep_time) ==
    FormatHM(Max(SleepFloor, sleep_time.hour - 1), sleep_time.minute)

NewMealTime(time) ==
    LET hm == SplitHM(time) IN FormatHM(Max(MealFloor, hm.h - 1), hm.m)

NewMealTimes(meal_times) == [i \in 1..Len(meal_times) |-> NewMealTime(meal_times[i])]

ReducedBadHabits(bad_habits) == SubSeq(bad_habits, 1, Len(bad_habits) - 1)

PendingRow(user_id, habit, current_value, next_value, reason) ==
    [user_id |-> user_id, habit |-> habit, current_value |-> current_value,
     next_suggested_value |-> next_value, reason |-> reason, status |-> "pending"]

\* The INSERTs of one call, in the order the handler issues them
WakeInserts(user_id, existing_habits, routine) ==
    IF WakeRuleFires(existing_habits, routine)
    THEN <<PendingRow(user_id, "wake_up_time", routine.wake_up_time,
                      NewWakeTime(routine.wake_up_time), "Gradual wake-up shift")>>
    ELSE <<>>

SleepInserts(user_id, existing_habits, routine) ==
    IF SleepRuleFires(existing_habits, routine)
    THEN <<PendingRow(user_id, "sleep_time", routine.sleep_time,
                      NewSleepTime(routine.sleep_time), "Improve sleep quality")>>
    ELSE <<>>

MealInserts(user_id, existing_habits, routine) ==
    IF MealRuleFires(existing_habits, routine)
    THEN [i \in 1..Len(routine.meal_times.items) |->
            PendingRow(user_id, "meal_times", routine.meal_times.items[i],
                       NewMealTime(routine.meal_times.items[i]), "Optimize meal timing")]
    ELSE <<>>

BadHabitsInserts(user_id, existing_habits, routine) ==
    IF BadHabitsRuleFires(existing_habits, routine)
    THEN <<PendingRow(user_id, "bad_habits", StrOfList(routine.bad_habits.items),
                      StrOfList(ReducedBadHabits(routine.bad_habits.items)),
                      "Reduce negative habits")>>
    ELSE <<>>

Inserts(user_id, existing_habits, routine) ==
    WakeInserts(user_id, existing_habits, routine)
      \o SleepInserts(user_id, existing_habits, routine)
      \o MealInserts(user_id, existing_habits, routine)
      \o BadHabitsInserts(user_id, existing_habits, routine)

Proposal(habit, suggested_change) == [habit |-> habit, suggested_change |-> suggested_change]

\* The list the handler returns under "adjustments"
Adjustments(existing_habits, routine) ==
    (IF WakeRuleFires(existing_habits, routine)
     THEN <<Proposal("wake_up_time", NewWakeTime(routine.wake_up_time))>> ELSE <<>>)
      \o (IF SleepRuleFires(existing_habits, routine)
          THEN <<Proposal("sleep_time", NewSleepTime(routine.sleep_time))>> ELSE <<>>)
      \o (IF MealRuleFires(existing_habits, routine)
          THEN <<Proposal("meal_times", NewMealTimes(routine.meal_times.items))>> ELSE <<>>)
      \o (IF BadHabitsRuleFires(existing_habits, routine)
          THEN <<Proposal("bad_habits", ReducedBadHabits(routine.bad_habits.items))>>
          ELSE <<>>)

\* Rows as stored: the serial numbers them in insert order
Numbered(inserts, first_id) ==
    {[adjustment_id |-> first_id + i - 1] @@ inserts[i] : i \in 1..Len(inserts)}

\* Mutant of HistoryRow: the 'accepted' INSERT pasted into the rejected branch
HistoryRowAlwaysAccepted(adjustment, status) ==
    [user_id |-> adjustment.user_id, habit |-> adjustment.habit,
     previous_value |-> adjustment.current_value,
     new_value |-> adjustment.next_suggested_value, status |-> "accepted"]

HistoryRow(adjustment, status) ==
    [user_id |-> adjustment.user_id, habit |-> adjustment.habit,
     previous_value |-> adjustment.current_value,
     new_value |-> adjustment.next_suggested_value, status |-> status]

----------------------------------------------------------------------------
(* Responses *)

Response(op, arg, status, kind, adjustments) ==
    [op |-> op, arg |-> arg, status |-> status, kind |-> kind, adjustments |-> adjustments]

NoResponse == Response("none", 0, "", "none", <<>>)

IdleWorker ==
    [pc |-> "idle", op |-> "none", arg |-> 0, status |-> "",
     existing_habits |-> {}, routine_rows |-> {}, adjustment_rows |-> {},
     tx_inserts |-> {}, tx_history |-> <<>>, tx_deleted |-> {}]

----------------------------------------------------------------------------
(* Inputs *)

Time(h, m) == [hour |-> h, minute |-> m]
List(items) == [is_list |-> TRUE, items |-> items]
Null == [is_list |-> FALSE, items |-> <<>>]

Routine(wake, sleep, meals, bad) ==
    [wake_up_time |-> wake, sleep_time |-> sleep, meal_times |-> meals, bad_habits |-> bad]

\* Two days.  On the first the user slept before 1am, ate twice and logged two
\* bad habits; on the second the user slept late and logged an empty meal list
\* and no bad-habit list.
SampleDays ==
    {[date |-> 1,
      routine |-> Routine(Time(7, 15), Time(0, 45),
                          List(<<FormatHM(7, 0), FormatHM(12, 30)>>),
                          List(<<"coffee", "sugar">>))],
     [date |-> 2,
      routine |-> Routine(Time(5, 5), Time(23, 59), List(<<>>), Null)]}

----------------------------------------------------------------------------
(* Handlers, one step per call *)

Init ==
    /\ daily_routines = {}
    /\ habit_adjustments = {}
    /\ habit_history = EmptyBag
    /\ archived_ids = EmptyBag
    /\ next_adjustment_id = 1
    /\ open_connections = 0
    /\ response = NoResponse
    /\ workers = [w \in Workers |-> IdleWorker]

\* get_db_connection() returned None: the handler falls off its end and returns None
ConnectionFailure(op, arg, status) ==
    /\ response' = Response(op, arg, status, "none", <<>>)
    /\ UNCHANGED <<daily_routines, habit_adjustments, habit_history, archived_ids,
                   next_adjustment_id, open_connections, workers>>

\* db.py insert_routine
InsertRoutine(user_id, date, routine) ==
    /\ Cardinality(daily_routines) < MaxRoutineRows
    /\ open_connections < MaxConnections
    /\ daily_routines' = daily_routines \cup
           {[user_id |-> user_id, date |-> date, routine |-> routine]}
    /\ response' = Response("insert_routine", user_id, "", "ok", <<>>)
    /\ UNCHANGED <<habit_adjustments, habit_history, archived_ids,
                   next_adjustment_id, open_connections, workers>>

AdjustHabits(user_id) ==
    /\ open_connections < MaxConnections
    /\ LET existing_habits == ExistingHabits(habit_adjustments, user_id)
           latest == LatestRoutines(daily_routines, user_id)
       IN  IF latest = {}
           THEN \* returns with the connection still open
                /\ response' = Response("adjust_habits", user_id, "", "no_data", <<>>)
                /\ open_connections' = open_connections + 1
                /\ UNCHANGED <<habit_adjustments, next_adjustment_id>>
           ELSE \E row \in latest :
                  LET inserts == Inserts(user_id, existing_habits, row.routine)
                  IN  /\ habit_adjustments' = habit_adjustments
                             \cup Numbered(inserts, next_adjustment_id)
                      /\ next_adjustment_id' = next_adjustment_id + Len(inserts)
                      /\ response' = Response("adjust_habits", user_id, "", "adjustments",
                                              Adjustments(existing_habits, row.routine))
                      /\ UNCHANGED open_connections
    /\ UNCHANGED <<daily_routines, habit_history, archived_ids, workers>>

\* Mutant of UpdateHabit: no status check; an unknown status skips both INSERTs
\* and still reaches the DELETE
UpdateHabitUnchecked(adjustment_id, status) ==
    /\ open_connections < MaxConnections
    /\ LET found == {r \in habit_adjustments : r.adjustment_id = adjustment_id}
       IN  IF found = {}
           THEN /\ response' = Response("update_habit", adjustment_id, status, "not_found", <<>>)
                /\ open_connections' = open_connections + 1
                /\ UNCHANGED <<habit_adjustments, habit_history, archived_ids>>
           ELSE \E adjustment \in found :
                /\ IF status \in ValidStatuses
                   THEN /\ habit_history' =
                               habit_history (+) SetToBag({HistoryRow(adjustment, status)})
                        /\ archived_ids' = archived_ids (+) SetToBag({adjustment_id})
                   ELSE UNCHANGED <<habit_history, archived_ids>>
                /\ habit_adjustments' =
                       {r \in habit_adjustments : r.adjustment_id # adjustment_id}
                /\ response' = Response("update_habit", adjustment_id, status, "ok", <<>>)
                /\ UNCHANGED open_connections
    /\ UNCHANGED <<daily_routines, next_adjustment_id, workers>>

UpdateHabit(adjustment_id, status) ==
    IF status \notin ValidStatuses
    THEN \* HTTPException(400) before any connection is opened
         /\ response' = Response("update_habit", adjustment_id, status, "invalid_status", <<>>)
         /\ UNCHANGED <<daily_routines, habit_adjustments, habit_history, archived_ids,
                        next_adjustment_id, open_connections, workers>>
    ELSE /\ open_connections < MaxConnections
         /\ LET found == {r \in habit_adjustments : r.adjustment_id = adjustment_id}
            IN  IF found = {}
                THEN \* returns with the connection still open
                     /\ response' = Response("update_habit", adjustment_id, status,
                                             "not_found", <<>>)
                     /\ open_connections' = open_connections + 1
                     /\ UNCHANGED <<habit_adjustments, habit_history, archived_ids>>
                ELSE \E adjustment \in found :
                     /\ habit_history' = habit_history (+) SetToBag({HistoryRow(adjustment, status)})
                     /\ archived_ids' = archived_ids (+) SetToBag({adjustment_id})
                     /\ habit_adjustments' =
                            {r \in habit_adjustments : r.adjustment_id # adjustment_id}
                     /\ response' = Response("update_habit", adjustment_id, status, "ok", <<>>)
                     /\ UNCHANGED open_connections
         /\ UNCHANGED <<daily_routines, next_adjustment_id, workers>>

\* The serial is capped: a call that would number a row past MaxAdjustmentId is not taken
AdjustHabitsCapped(user_id) ==
    AdjustHabits(user_id) /\ next_adjustment_id' <= MaxAdjustmentId + 1

Next ==
    \/ \E u \in UserIds, day \in SampleDays : InsertRoutine(u, day.date, day.routine)
    \/ \E u \in UserIds : AdjustHabitsCapped(u)
    \/ \E id \in 1..MaxAdjustmentId, s \in RequestStatuses : UpdateHabit(id, s)
    \/ \E u \in UserIds : ConnectionFailure("adjust_habits", u, "")
    \/ \E id \in 1..MaxAdjustmentId, s \in ValidStatuses :
           ConnectionFailure("update_habit", id, s)

Spec == Init /\ [][Next]_vars

----------------------------------------------------------------------------
(* SpecRules: the rule engine over the whole range of hours.  Each initial  *)
(* state is one the handlers reach: user 1 logged OldRoutine, adjust_habits *)
(* proposed all four habits (ids 1..4), the user accepted those outside the *)
(* pending set, and then logged the routine under test on a later date.     *)

RulesUsers == {1}
Hours == 0..23
MinutePairs == {<<0, 59>>, <<59, 0>>}

OldRoutine == Routine(Time(8, 0), Time(3, 0), List(<<FormatHM(9, 0)>>), List(<<"coffee">>))

RulesMeals == {Null, List(<<>>),
               List(<<FormatHM(7, 0), FormatHM(12, 30), FormatHM(19, 0)>>),
               List(<<FormatHM(0, 10), FormatHM(23, 59)>>)}

RulesBadHabits == {Null, List(<<"coffee", "sugar", "lateNight">>)}

RulesRoutines ==
    {Routine(Time(wh, mm[1]), Time(sh, mm[2]), meals, bad) :
        wh \in Hours, sh \in Hours, mm \in MinutePairs,
        meals \in RulesMeals, bad \in RulesBadHabits}

OldRows == Numbered(Inserts(1, {}, OldRoutine), 1)

InitRules ==
    \E pending \in SUBSET Habits, routine \in RulesRoutines :
        /\ daily_routines = {[user_id |-> 1, date |-> 1, routine |-> OldRoutine],
                             [user_id |-> 1, date |-> 2, routine |-> routine]}
        /\ habit_adjustments = {r \in OldRows : r.habit \in pending}
        /\ habit_history =
               SetToBag({HistoryRow(r, "accepted") : r \in {o \in OldRows : o.habit \notin pending}})
        /\ archived_ids =
               SetToBag({r.adjustment_id : r \in {o \in OldRows : o.habit \notin pending}})
        /\ next_adjustment_id = Cardinality(OldRows) + 1
        /\ open_connections = 0
        /\ response = NoResponse
        /\ workers = [w \in Workers |-> IdleWorker]

NextRules == \E u \in RulesUsers : AdjustHabits(u)

SpecRules == InitRules /\ [][NextRules]_vars

----------------------------------------------------------------------------
(* SpecConc: two server workers, one SQL statement per step.  Every call    *)
(* runs in the transaction psycopg2 opens on its own connection: it reads   *)
(* the committed rows and its own writes, other connections see its writes  *)
(* at conn.commit(), and a DELETE waits for a row another open transaction  *)
(* has deleted.  The run starts where the handlers leave user 1 after one   *)
(* adjust_habits call (wake_up_time as id 1, sleep_time as id 2) and the    *)
(* acceptance of id 1.                                                      *)

ConcMaxAdjustmentId == 4
\* the database admits one connection per worker
ConcMaxConnections == Cardinality(Workers)

ConcUsers == {1}
ConcRoutine == Routine(Time(7, 15), Time(2, 0), Null, Null)
ConcRows == Numbered(Inserts(1, {}, ConcRoutine), 1)

InitConc ==
    /\ daily_routines = {[user_id |-> 1, date |-> 1, routine |-> ConcRoutine]}
    /\ habit_adjustments = {r \in ConcRows : r.adjustment_id # 1}
    /\ habit_history =
           SetToBag({HistoryRow(r, "accepted") : r \in {o \in ConcRows : o.adjustment_id = 1}})
    /\ archived_ids = SetToBag({1})
    /\ next_adjustment_id = Cardinality(ConcRows) + 1
    /\ open_connections = 0
    /\ response = NoResponse
    /\ workers = [w \in Workers |-> IdleWorker]

\* What a SELECT on habit_adjustments returns to worker w
VisibleAdjustments(w) ==
    {r \in habit_adjustments : r.adjustment_id \notin workers[w].tx_deleted}
        \cup workers[w].tx_inserts

\* The row lock an uncommitted DELETE of another connection holds
LockedByOther(w, adjustment_id) ==
    \E o \in Workers \ {w} : adjustment_id \in workers[o].tx_deleted

CallAdjustHabits(w, user_id) ==
    /\ workers[w].pc = "idle"
    /\ open_connections < ConcMaxConnections
    /\ open_connections' = open_connections + 1
    /\ workers' = [workers EXCEPT ![w] =
           [IdleWorker EXCEPT !.pc = "adj_select_pending", !.op = "adjust_habits",
                              !.arg = user_id]]
    /\ UNCHANGED <<daily_routines, habit_adjustments, habit_history, archived_ids,
                   next_adjustment_id, response>>

AdjSelectPending(w) ==
    /\ workers[w].pc = "adj_select_pending"
    /\ workers' = [workers EXCEPT
           ![w].existing_habits = ExistingHabits(VisibleAdjustments(w), workers[w].arg),
           ![w].pc = "adj_select_routine"]
    /\ UNCHANGED <<daily_routines, habit_adjustments, habit_history, archived_ids,
                   next_adjustment_id, open_connections, response>>

AdjSelectRoutine(w) ==
    /\ workers[w].pc = "adj_select_routine"
    /\ LET latest == LatestRoutines(daily_routines, workers[w].arg)
       IN  IF latest = {}
           THEN \* returns with the connection still open
                workers' = [workers EXCEPT ![w] = IdleWorker]
           ELSE \E row \in latest :
                  workers' = [workers EXCEPT ![w].routine_rows = {row},
                                             ![w].pc = "adj_insert"]
    /\ UNCHANGED <<daily_routines, habit_adjustments, habit_history, archived_ids,
                   next_adjustment_id, open_connections, response>>

AdjInsert(w) ==
    /\ workers[w].pc = "adj_insert"
    /\ \E row \in workers[w].routine_rows :
         LET inserts == Inserts(workers[w].arg, workers[w].existing_habits, row.routine)
         IN  /\ next_adjustment_id + Len(inserts) - 1 <= ConcMaxAdjustmentId
             /\ workers' = [workers EXCEPT
                    ![w].tx_inserts = Numbered(inserts, next_adjustment_id),
                    ![w].pc = "adj_commit"]
             /\ next_adjustment_id' = next_adjustment_id + Len(inserts)
    /\ UNCHANGED <<daily_routines, habit_adjustments, habit_history, archived_ids,
                   open_connections, response>>

\* Mutant of AdjCommit: the connection is closed without conn.commit()
AdjCloseWithoutCommit(w) ==
    /\ workers[w].pc = "adj_commit"
    /\ open_connections' = open_connections - 1
    /\ workers' = [workers EXCEPT ![w] = IdleWorker]
    /\ UNCHANGED <<daily_routines, habit_adjustments, habit_history, archived_ids,
                   next_adjustment_id, response>>

AdjCommit(w) ==
    /\ workers[w].pc = "adj_commit"
    /\ habit_adjustments' = habit_adjustments \cup workers[w].tx_inserts
    /\ open_connections' = open_connections - 1
    /\ workers' = [workers EXCEPT ![w] = IdleWorker]
    /\ UNCHANGED <<daily_routines, habit_history, archived_ids, next_adjustment_id, response>>

CallUpdateHabit(w, adjustment_id, status) ==
    /\ workers[w].pc = "idle"
    /\ IF status \notin ValidStatuses
       THEN \* HTTPException(400) before any connection is opened
            UNCHANGED <<open_connections, workers>>
       ELSE /\ open_connections < ConcMaxConnections
            /\ open_connections' = open_connections + 1
            /\ workers' = [workers EXCEPT ![w] =
                   [IdleWorker EXCEPT !.pc = "upd_select", !.op = "update_habit",
                                      !.arg = adjustment_id, !.status = status]]
    /\ UNCHANGED <<daily_routines, habit_adjustments, habit_history, archived_ids,
                   next_adjustment_id, response>>

UpdSelect(w) ==
    /\ workers[w].pc = "upd_select"
    /\ LET found == {r \in VisibleAdjustments(w) : r.adjustment_id = workers[w].arg}
       IN  IF found = {}
           THEN \* returns with the connection still open
                workers' = [workers EXCEPT ![w] = IdleWorker]
           ELSE workers' = [workers EXCEPT ![w].adjustment_rows = found,
                                           ![w].pc = "upd_insert_history"]
    /\ UNCHANGED <<daily_routines, habit_adjustments, habit_history, archived_ids,
                   next_adjustment_id, open_connections, response>>

UpdInsertHistory(w) ==
    /\ workers[w].pc = "upd_insert_history"
    /\ \E adjustment \in workers[w].adjustment_rows :
         workers' = [workers EXCEPT
             ![w].tx_history = <<HistoryRow(adjustment, workers[w].status)>>,
             ![w].pc = "upd_delete"]
    /\ UNCHANGED <<daily_routines, habit_adjustments, habit_history, archived_ids,
                   next_adjustment_id, open_connections, response>>

UpdDelete(w) ==
    /\ workers[w].pc = "upd_delete"
    /\ ~LockedByOther(w, workers[w].arg)
    /\ workers' = [workers EXCEPT
           ![w].tx_deleted = {r.adjustment_id :
                               r \in {v \in VisibleAdjustments(w) :
                                        v.adjustment_id = workers[w].arg}},
           ![w].pc = "upd_commit"]
    /\ UNCHANGED <<daily_routines, habit_adjustments, habit_history, archived_ids,
                   next_adjustment_id, open_connections, response>>

UpdCommit(w) ==
    /\ workers[w].pc = "upd_commit"
    /\ habit_history' = habit_history (+) SetToBag({workers[w].tx_history[i] :
                                                     i \in 1..Len(workers[w].tx_history)})
    /\ archived_ids' = archived_ids (+) SetToBag({workers[w].arg})
    /\ habit_adjustments' =
           {r \in habit_adjustments : r.adjustment_id \notin workers[w].tx_deleted}
    /\ open_connections' = open_connections - 1
    /\ workers' = [workers EXCEPT ![w] = IdleWorker]
    /\ UNCHANGED <<daily_routines, next_adjustment_id, response>>

NextConc ==
    \/ \E w \in Workers, u \in ConcUsers : CallAdjustHabits(w, u)
    \/ \E w \in Workers : AdjSelectPending(w)
    \/ \E w \in Workers : AdjSelectRoutine(w)
    \/ \E w \in Workers : AdjInsert(w)
    \/ \E w \in Workers : AdjCommit(w)
    \/ \E w \in Workers, id \in 1..ConcMaxAdjustmentId, s \in RequestStatuses :
           CallUpdateHabit(w, id, s)
    \/ \E w \in Workers : UpdSelect(w)
    \/ \E w \in Workers : UpdInsertHistory(w)
    \/ \E w \in Workers : UpdDelete(w)
    \/ \E w \in Workers : UpdCommit(w)

SpecConc == InitConc /\ [][NextConc]_vars

----------------------------------------------------------------------------
(* Properties.  A step that completes a call is recognised by the response *)
(* it leaves; the values the properties expect are spelled out here, not   *)
(* taken from the rule engine's operators.                                 *)

PendingFor(user_id, habit) ==
    {r \in habit_adjustments :
        r.user_id = user_id /\ r.habit = habit /\ r.status = "pending"}

\* Rows a step adds to habit_adjustments for one user and habit
NewRowsFor(user_id, habit) ==
    {r \in habit_adjustments' \ habit_adjustments : r.user_id = user_id /\ r.habit = habit}

\* Positions of a habit's proposals in a returned list
ProposalsFor(resp, habit) ==
    {i \in 1..Len(resp.adjustments) : resp.adjustments[i].habit = habit}

\* The routine rows of a user that no row of that user postdates
LatestOf(user_id) ==
    {r \in daily_routines :
        r.user_id = user_id /\ ~\E o \in daily_routines : o.user_id = user_id /\ o.date > r.date}

Dec(c) ==
    CASE c = "0" -> 0 [] c = "1" -> 1 [] c = "2" -> 2 [] c = "3" -> 3 [] c = "4" -> 4
      [] c = "5" -> 5 [] c = "6" -> 6 [] c = "7" -> 7 [] c = "8" -> 8 [] c = "9" -> 9
      [] OTHER -> 0 - 1

\* s is the five characters "HH:MM" naming hour h and minute m
IsClock(s, h, m) ==
    /\ Len(s) = 5
    /\ s[3] = ":"
    /\ 10 * Dec(s[1]) + Dec(s[2]) = h
    /\ 10 * Dec(s[4]) + Dec(s[5]) = m

ClockHour(s) == 10 * Dec(s[1]) + Dec(s[2])
ClockMinute(s) == 10 * Dec(s[4]) + Dec(s[5])

Floored(floor, h) == IF h - 1 > floor THEN h - 1 ELSE floor

AdjustStep == response'.op = "adjust_habits" /\ response'.kind = "adjustments"

\* C1: for every user and habit name the habit_adjustments table holds at most
\* one pending record (stated as claimed; the meal rule breaks it).
C1_AtMostOnePendingPerHabit ==
    \A u \in UserIds, h \in Habits : Cardinality(PendingFor(u, h)) <= 1

\* C2: an update_habit call that reached storage, with status accepted or
\* rejected and an id that has a pending adjustment, adds exactly one history
\* entry carrying that status and the adjustment's user, habit, current value
\* (as previous value) and suggested value (as new value), removes exactly that
\* pending record and changes no other pending record or history entry.
C2_ResolveArchivesOnce ==
    [][(/\ response'.op = "update_habit"
        /\ response'.status \in ValidStatuses
        /\ response'.kind # "none"
        /\ \E r \in habit_adjustments : r.adjustment_id = response'.arg)
       => \E a \in habit_adjustments :
            /\ a.adjustment_id = response'.arg
            /\ response'.kind = "ok"
            /\ habit_history' = habit_history (+) SetToBag({
                   [user_id |-> a.user_id, habit |-> a.habit,
                    previous_value |-> a.current_value,
                    new_value |-> a.next_suggested_value,
                    status |-> response'.status]})
            /\ BagCardinality(habit_history') = BagCardinality(habit_history) + 1
            /\ habit_adjustments' = habit_adjustments \ {a}
            /\ ~\E r \in habit_adjustments' : r.adjustment_id = response'.arg]_vars

C2_Witness ==
    /\ response.op = "update_habit"
    /\ response.kind = "ok"
    /\ response.status = "rejected"
    /\ BagCardinality(habit_history) = 2
    /\ Cardinality(habit_adjustments) = 1

\* C3: a failing update_habit call changes no table: an unknown status fails
\* with InvalidStatus before a connection is opened, a call that reached
\* storage with an id that has no pending adjustment fails with NotFound, and
\* in both cases pending adjustments and history are as before; an adjustment
\* resolved once has no pending record left and never gets a second history
\* entry.
C3_FailedUpdateChangesNothing ==
    /\ [](\A id \in 1..MaxAdjustmentId :
            /\ CopiesIn(id, archived_ids) <= 1
            /\ BagIn(id, archived_ids)
                 => ~\E r \in habit_adjustments : r.adjustment_id = id)
    /\ [][response'.op = "update_habit"
          => /\ response'.status \notin ValidStatuses
                  => /\ response'.kind = "invalid_status"
                     /\ UNCHANGED <<daily_routines, habit_adjustments, habit_history,
                                    archived_ids, next_adjustment_id, open_connections>>
             /\ (/\ response'.status \in ValidStatuses
                 /\ response'.kind # "none"
                 /\ ~\E r \in habit_adjustments : r.adjustment_id = response'.arg)
                  => /\ response'.kind = "not_found"
                     /\ UNCHANGED <<daily_routines, habit_adjustments, habit_history,
                                    archived_ids, next_adjustment_id>>]_vars

C3_Witness ==
    /\ response.op = "update_habit"
    /\ response.kind = "not_found"
    /\ BagIn(response.arg, archived_ids)
    /\ BagCardinality(habit_history) = 1

\* C4: in every committed state each adjustment has at most one history entry
\* and none is both pending and archived (stated as claimed; two interleaved
\* update_habit calls for one id break the first part).
C4_ArchivedExactlyOnce ==
    \A id \in 1..ConcMaxAdjustmentId :
        /\ CopiesIn(id, archived_ids) <= 1
        /\ ~(BagIn(id, archived_ids) /\ \E r \in habit_adjustments : r.adjustment_id = id)

\* C5: when the latest routine's sleep hour is 0 or 1, adjust_habits neither
\* returns nor persists a wake_up_time or a sleep_time proposal; for a sleep
\* hour of 2..23 it returns and persists exactly one of each, exactly when
\* that habit had no pending record.
C5_LateSleepGate ==
    [][AdjustStep =>
        \E row \in LatestOf(response'.arg) :
          \A h \in {"wake_up_time", "sleep_time"} :
            LET proposed == Cardinality(ProposalsFor(response', h))
                persisted == Cardinality(NewRowsFor(response'.arg, h))
            IN  IF row.routine.sleep_time.hour \in {0, 1}
                   \/ PendingFor(response'.arg, h) # {}
                THEN proposed = 0 /\ persisted = 0
                ELSE proposed = 1 /\ persisted = 1]_vars

C5_Witness ==
    /\ response.op = "adjust_habits"
    /\ response.kind = "adjustments"
    /\ \E row \in LatestOf(1) : row.routine.sleep_time.hour = 1
    /\ PendingFor(1, "wake_up_time") = {}
    /\ PendingFor(1, "sleep_time") = {}
    /\ ProposalsFor(response, "meal_times") # {}
    /\ ProposalsFor(response, "wake_up_time") = {}

\* C6: a wake_up_time proposal is hour max(6, wakeHour - 1) with the wake
\* time's minute, a sleep_time proposal is hour max(22, sleepHour - 1) with
\* the sleep time's minute, each a function of its own time alone, and the
\* pending record stores the original time as current value and the proposal
\* as next value.
C6_IndependentClamps ==
    [][AdjustStep =>
        \E row \in LatestOf(response'.arg) :
          \A i \in 1..Len(response'.adjustments) :
            LET p == response'.adjustments[i]
                wake == row.routine.wake_up_time
                sleep == row.routine.sleep_time
            IN  /\ p.habit = "wake_up_time"
                     => /\ IsClock(p.suggested_change, Floored(6, wake.hour), wake.minute)
                        /\ \E r \in NewRowsFor(response'.arg, "wake_up_time") :
                             /\ r.current_value = wake
                             /\ r.next_suggested_value = p.suggested_change
                /\ p.habit = "sleep_time"
                     => /\ IsClock(p.suggested_change, Floored(22, sleep.hour), sleep.minute)
                        /\ \E r \in NewRowsFor(response'.arg, "sleep_time") :
                             /\ r.current_value = sleep
                             /\ r.next_suggested_value = p.suggested_change]_vars

C6_Witness ==
    /\ response.op = "adjust_habits"
    /\ \E row \in LatestOf(1) :
         /\ row.routine.wake_up_time = [hour |-> 7, minute |-> 59]
         /\ row.routine.sleep_time = [hour |-> 3, minute |-> 0]
    /\ \E i \in ProposalsFor(response, "wake_up_time") :
         response.adjustments[i].suggested_change = <<"0", "6", ":", "5", "9">>
    /\ \E i \in ProposalsFor(response, "sleep_time") :
         response.adjustments[i].suggested_change = <<"2", "2", ":", "0", "0">>

\* C7: the meal rule fires exactly when meal_times has no pending record and
\* the meal list is non-empty; when it fires it persists one record per meal
\* (hour max(6, h - 1), same minute) and returns one proposal holding the new
\* list in order; otherwise it returns and persists nothing for meal_times
\* (stated as claimed; an empty list breaks it).
C7_MealRuleIffNonEmpty ==
    [][AdjustStep =>
        \E row \in LatestOf(response'.arg) :
          LET meals == row.routine.meal_times
              fires == /\ PendingFor(response'.arg, "meal_times") = {}
                       /\ meals.is_list
                       /\ Len(meals.items) > 0
              props == ProposalsFor(response', "meal_times")
              news == NewRowsFor(response'.arg, "meal_times")
          IN  IF fires
              THEN /\ Cardinality(props) = 1
                   /\ Cardinality(news) = Len(meals.items)
                   /\ \A i \in props :
                        LET new_list == response'.adjustments[i].suggested_change
                        IN  /\ Len(new_list) = Len(meals.items)
                            /\ \A k \in 1..Len(new_list) :
                                 /\ IsClock(new_list[k],
                                            Floored(6, ClockHour(meals.items[k])),
                                            ClockMinute(meals.items[k]))
                                 /\ \E r \in news :
                                      /\ r.current_value = meals.items[k]
                                      /\ r.next_suggested_value = new_list[k]
              ELSE props = {} /\ news = {}]_vars

\* C8: every call closes the connection it opened before it returns: between
\* calls no connection is open (stated as claimed; the 'no routine data' and
\* 'no habit adjustment found' returns break it).
C8_AllConnectionsClosed == open_connections = 0

\* C9: a habit with a pending record committed before an adjust_habits call is
\* neither returned nor persisted by that call.
C9_PendingCheckIsCurrent ==
    [][response'.op = "adjust_habits"
       => \A h \in Habits :
            PendingFor(response'.arg, h) # {}
              => /\ ProposalsFor(response', h) = {}
                 /\ NewRowsFor(response'.arg, h) = {}]_vars

\* after id 1 (wake_up_time) was resolved the next call proposed wake_up_time
\* again, as id 3, and left the pending sleep_time (id 2) alone
C9_Witness ==
    /\ response.op = "adjust_habits"
    /\ response.kind = "adjustments"
    /\ BagIn(1, archived_ids)
    /\ \E u \in UserIds :
         /\ ProposalsFor(response, "wake_up_time") # {}
         /\ ProposalsFor(response, "sleep_time") = {}
         /\ response.arg = u
         /\ \E r \in PendingFor(u, "wake_up_time") : r.adjustment_id = 3
         /\ \A r \in PendingFor(u, "sleep_time") : r.adjustment_id = 2
         /\ PendingFor(u, "sleep_time") # {}

\* C10: nothing stops a second writer: a call that read a pending set without
\* wake_up_time (sleep hour > 1) holds a wake_up_time insert at its commit
\* whatever other calls inserted or committed meanwhile, and its commit adds
\* every row it inserted to the committed table; so two interleaved calls
\* commit two pending wake_up_time records for one user.
C10_NoStorageGuard ==
    /\ [](\A w \in Workers :
            (/\ workers[w].pc = "adj_commit"
             /\ "wake_up_time" \notin workers[w].existing_habits
             /\ \E row \in workers[w].routine_rows : row.routine.sleep_time.hour > 1)
              => \E r \in workers[w].tx_inserts :
                   r.habit = "wake_up_time" /\ r.user_id = workers[w].arg)
    /\ [][\A w \in Workers :
            (workers[w].pc = "adj_commit" /\ workers'[w].pc = "idle")
              => habit_adjustments' = habit_adjustments \cup workers[w].tx_inserts]_vars

C10_TwoPendingWakeUp ==
    /\ \A w \in Workers : workers[w].pc = "idle"
    /\ \E u \in ConcUsers : Cardinality(PendingFor(u, "wake_up_time")) >= 2

====
